---- MODULE Spec2Model ----
(***************************************************************************)
(* Model of src/raw/bids.py: convert_dataset() turns per-rat raw MRI       *)
(* folders plus an Excel sheet into a BIDS tree, sorting every converted   *)
(* series into func/anat by its repetition time (TR).                      *)
(*                                                                         *)
(* Times are integers in hundredths of a second (1.0 s = 100), so that the *)
(* tolerance 0.05 s is 5 and the default -1 of a missing RepetitionTime is *)
(* -100.  Strings that the code normalises are sequences of one-character  *)
(* strings.                                                                *)
(***************************************************************************)
EXTENDS Integers, Sequences, FiniteSets, TLC

\* ---------------------------------------------------------------- bounds
MaxRows == 2
MaxScans == 1

\* ------------------------------------------------------------- constants
TR_TOLERANCE == 5
AbsentTRWrong == 20 * TR_TOLERANCE
AbsentTR == -100

\* --------------------------------------------------------- cells of a sheet
\* A cell of a TR column: a number, an empty cell (NaN), or text.
Num(v) == [kind |-> "num", val |-> v]
NaN == [kind |-> "nan", val |-> 0]
Text == [kind |-> "text", val |-> 0]

RawIds == { <<"R", "a", "t", " ", "7">>, <<"r", "a", "t", "9">> }
AnatCells == { NaN, Num(103), Num(250) }
FuncCells == { NaN, Num(100), Text }
Rows == [id : RawIds, anat : AnatCells, func : FuncCells]
Tables == UNION { [1..n -> Rows] : n \in 0..MaxRows }

\* os.listdir(DATA_ROOT): the directories under the data root.
DataRootListing ==
    << <<"r", "a", "t", "7">>, <<"d", "o", "c", "s">>, <<"R", "a", "t", " ", "9">> >>

\* ------------------------------------------------------------- clean_id
LowerChar(c) ==
    CASE c = "R" -> "r"
      [] c = "A" -> "a"
      [] c = "T" -> "t"
      [] OTHER -> c

Lower(s) == [j \in 1..Len(s) |-> LowerChar(s[j])]

RECURSIVE Strip(_)
Strip(s) ==
    IF s = <<>> THEN s
    ELSE IF Head(s) = " " THEN Strip(Tail(s))
    ELSE IF s[Len(s)] = " " THEN Strip(SubSeq(s, 1, Len(s) - 1))
    ELSE s

IsNotSpace(c) == c # " "
RemoveSpaces(s) == SelectSeq(s, IsNotSpace)

clean_id(val) == RemoveSpaces(Strip(Lower(val)))

StartsWithRat(d) ==
    /\ Len(d) >= 3
    /\ SubSeq(Lower(d), 1, 3) = <<"r", "a", "t">>

\* ----------------------------------------------------------------- ffill
RECURSIVE LastPresent(_, _, _)
LastPresent(table, col, j) ==
    IF j = 0 THEN NaN
    ELSE IF table[j][col].kind # "nan" THEN table[j][col]
    ELSE LastPresent(table, col, j - 1)

\* The data frame after ffill of the two TR columns and the clean_id column.
ReadFrame(table) ==
    [j \in 1..Len(table) |->
        [id |-> table[j].id,
         anat |-> LastPresent(table, "anat", j),
         func |-> LastPresent(table, "func", j),
         clean_id |-> clean_id(table[j].id)]]

\* ----------------------------------------------------------- participants
SubPrefix == <<"s", "u", "b", "-">>
Sub(key) == SubPrefix \o key

RECURSIVE Dedup(_)
Dedup(s) ==
    IF s = <<>> THEN s
    ELSE LET front == SubSeq(s, 1, Len(s) - 1)
             last == s[Len(s)]
         IN IF \E j \in 1..Len(front) : front[j] = last
            THEN Dedup(front)
            ELSE Append(Dedup(front), last)

ParticipantsDedup(frame) == Dedup([j \in 1..Len(frame) |-> Sub(frame[j].clean_id)])
Participants(frame) == [j \in 1..Len(frame) |-> Sub(frame[j].clean_id)]

\* ------------------------------------------------------------ row lookup
MatchesId(r, name) == r.clean_id = name
MatchAnyRow(frame, name) == frame
MatchingRows(frame, name) == SelectSeq(frame, LAMBDA r : MatchesId(r, name))

LastRow(rows) == rows[Len(rows)]
FirstRow(rows) == rows[1]

\* float(cell): a number or NaN converts, text raises ValueError.
FloatRaises(cell) == cell.kind = "text"

\* ------------------------------------------------------------ the sidecar
EmptyDoc == [f \in {} |-> 0]
Unreadable == [ok |-> FALSE, doc |-> EmptyDoc]
Readable(doc) == [ok |-> TRUE, doc |-> doc]

ScanTRs == {104, 105, 108}
Docs ==
    { [f \in {"Manufacturer"} \cup extra |->
         CASE f = "Manufacturer" -> "Bruker"
           [] f = "RepetitionTime" -> tr
           [] f = "TaskName" -> "rest"] :
      extra \in SUBSET {"RepetitionTime", "TaskName"}, tr \in ScanTRs }
Sidecars == {Unreadable} \cup { Readable(d) : d \in Docs }

\* data.get('RepetitionTime', -1), and -1 when the file cannot be loaded.
ActualTR(sidecar) ==
    IF sidecar.ok /\ "RepetitionTime" \in DOMAIN sidecar.doc
    THEN sidecar.doc["RepetitionTime"]
    ELSE AbsentTR

Abs(x) == IF x < 0 THEN -x ELSE x

\* abs(actual_tr - target) < TR_TOLERANCE; any comparison with NaN is False.
WithinInclusive(actual, target) ==
    target.kind = "num" /\ Abs(actual - target.val) <= TR_TOLERANCE
Within(actual, target) ==
    target.kind = "num" /\ Abs(actual - target.val) < TR_TOLERANCE

None == "None"

MatchingLogic(actual, func_target, anat_target) ==
    IF Within(actual, func_target) THEN "func"
    ELSE IF Within(actual, anat_target) THEN "anat"
    ELSE None

\* jdata['TaskName'] = "visual"
OnlyTaskName(doc) == [f \in {"TaskName"} |-> "visual"]
AddTaskName(doc) ==
    [f \in DOMAIN doc \cup {"TaskName"} |-> IF f = "TaskName" THEN "visual" ELSE doc[f]]

AugmentAlways(dest_folder, doc) == AddTaskName(doc)
Augment(dest_folder, doc) == IF dest_folder = "func" THEN AddTaskName(doc) ELSE doc

\* --------------------------------------------------------------- placement
FinalDir(key, dest_folder) == [sub |-> Sub(key), ses |-> "ses-01", folder |-> dest_folder]
NewName(key, dest_folder) ==
    [sub |-> Sub(key), ses |-> "ses-01",
     suffix |-> IF dest_folder = "func" THEN "task-visual_bold" ELSE "T2w"]

Path(key, dest_folder, ext) ==
    [dir |-> FinalDir(key, dest_folder), name |-> NewName(key, dest_folder), ext |-> ext]

\* shutil.move onto a path: an existing file there is replaced.
MoveTo(tree, path, data) ==
    { f \in tree : f.path # path } \cup { [path |-> path, data |-> data] }

NoScan == [seen |-> FALSE, orig |-> Unreadable, doc |-> EmptyDoc, actual_tr |-> 0,
           dest_folder |-> None, nii_at |-> "temp", json_at |-> "temp"]

\* ------------------------------------------------------------------ state
VARIABLES
    xlsx,            \* the sheet at EXCEL_PATH
    pc,              \* position in convert_dataset
    df,              \* the data frame after fill-down and clean_id
    participants,    \* participant_id column written to participants.tsv
    subject_dirs,    \* the rat folders found under DATA_ROOT
    i,               \* index of sub_dir in subject_dirs
    anat_tr_target,
    func_tr_target,
    temp,            \* the sub_dirs whose temp_bids folder exists
    todo,            \* sidecars of json_files not yet visited
    cur,             \* the scan pair being organised
    bids,            \* files under BIDS_ROOT/sub-*
    log,             \* warnings and errors printed
    converted        \* sub_dirs dcm2niix was run on

vars == <<xlsx, pc, df, participants, subject_dirs, i, anat_tr_target, func_tr_target,
          temp, todo, cur, bids, log, converted>>

sub_dir == subject_dirs[i]
clean_sub_name == clean_id(sub_dir)
row == MatchingRows(df, clean_sub_name)

Init ==
    /\ xlsx \in Tables
    /\ pc = "load"
    /\ df = <<>>
    /\ participants = <<>>
    /\ subject_dirs = <<>>
    /\ i = 1
    /\ anat_tr_target = NaN
    /\ func_tr_target = NaN
    /\ temp = {}
    /\ todo = 0
    /\ cur = NoScan
    /\ bids = {}
    /\ log = <<>>
    /\ converted = {}

\* Lines 42-68: read the sheet, fill down, normalise ids, write participants.tsv,
\* list the rat folders.
LoadMetadata ==
    /\ pc = "load"
    /\ df' = ReadFrame(xlsx)
    /\ participants' = Participants(ReadFrame(xlsx))
    /\ subject_dirs' = SelectSeq(DataRootListing, StartsWithRat)
    /\ pc' = "subject"
    /\ UNCHANGED <<xlsx, i, anat_tr_target, func_tr_target, temp, todo, cur, bids, log,
                   converted>>

\* Lines 53-55: the sheet cannot be read; the run returns.
LoadFails ==
    /\ pc = "load"
    /\ log' = Append(log, [kind |-> "excel_error", id |-> <<>>])
    /\ pc' = "done"
    /\ UNCHANGED <<xlsx, df, participants, subject_dirs, i, anat_tr_target,
                   func_tr_target, temp, todo, cur, bids, converted>>

\* Lines 79-81: no row of the sheet has this folder's id.
SkipNoRecord ==
    /\ pc = "subject"
    /\ i <= Len(subject_dirs)
    /\ row = <<>>
    /\ log' = Append(log, [kind |-> "not_in_excel", id |-> clean_sub_name])
    /\ i' = i + 1
    /\ UNCHANGED <<xlsx, pc, df, participants, subject_dirs, anat_tr_target,
                   func_tr_target, temp, todo, cur, bids, converted>>

\* Lines 85-91: float() of a TR cell raises.
SkipBadTR ==
    /\ pc = "subject"
    /\ i <= Len(subject_dirs)
    /\ row # <<>>
    /\ FloatRaises(FirstRow(row).anat) \/ FloatRaises(FirstRow(row).func)
    /\ anat_tr_target' =
          IF FloatRaises(FirstRow(row).anat) THEN anat_tr_target ELSE FirstRow(row).anat
    /\ log' = Append(log, [kind |-> "tr_error", id |-> clean_sub_name])
    /\ i' = i + 1
    /\ UNCHANGED <<xlsx, pc, df, participants, subject_dirs, func_tr_target, temp, todo,
                   cur, bids, converted>>

TargetsFound ==
    /\ pc = "subject"
    /\ i <= Len(subject_dirs)
    /\ row # <<>>
    /\ ~FloatRaises(FirstRow(row).anat)
    /\ ~FloatRaises(FirstRow(row).func)
    /\ anat_tr_target' = FirstRow(row).anat
    /\ func_tr_target' = FirstRow(row).func

\* Lines 86-105: targets read, temp_bids made, dcm2niix run, n sidecars globbed.
RunConversion ==
    /\ TargetsFound
    /\ temp' = temp \cup {sub_dir}
    /\ converted' = converted \cup {sub_dir}
    /\ \E n \in 0..MaxScans :
          /\ todo' = n
          /\ log' = IF n = 0 THEN Append(log, [kind |-> "no_nifti", id |-> clean_sub_name])
                    ELSE log
    /\ cur' = NoScan
    /\ pc' = "scan"
    /\ UNCHANGED <<xlsx, df, participants, subject_dirs, i, bids>>

\* Line 99: subprocess.run raises (dcm2niix cannot be started); nothing catches it.
ConversionRaises ==
    /\ TargetsFound
    /\ temp' = temp \cup {sub_dir}
    /\ pc' = "aborted"
    /\ UNCHANGED <<xlsx, df, participants, subject_dirs, i, todo, cur, bids, log,
                   converted>>

\* Lines 108-109: a sidecar whose image is missing is passed over.
SkipNoImage ==
    /\ pc = "scan"
    /\ todo > 0
    /\ todo' = todo - 1
    /\ cur' = NoScan
    /\ UNCHANGED <<xlsx, pc, df, participants, subject_dirs, i, anat_tr_target,
                   func_tr_target, temp, bids, log, converted>>

Examined(sidecar) ==
    LET actual == ActualTR(sidecar)
        dest == MatchingLogic(actual, func_tr_target, anat_tr_target)
    IN [seen |-> TRUE, orig |-> sidecar,
        doc |-> Augment(dest, sidecar.doc),
        actual_tr |-> actual, dest_folder |-> dest,
        nii_at |-> "temp", json_at |-> "temp"]

\* Lines 111-143: read the TR, match it, add TaskName to a functional sidecar;
\* an unmatched scan is passed over.
ClassifyScan ==
    /\ pc = "scan"
    /\ todo > 0
    /\ \E sidecar \in Sidecars :
          /\ cur' = Examined(sidecar)
          /\ pc' = IF Examined(sidecar).dest_folder = None THEN "scan" ELSE "move_nii"
    /\ todo' = todo - 1
    /\ UNCHANGED <<xlsx, df, participants, subject_dirs, i, anat_tr_target,
                   func_tr_target, temp, bids, log, converted>>

\* Lines 129-134: the sidecar of a functional scan cannot be opened for writing.
AugmentRaises ==
    /\ pc = "scan"
    /\ todo > 0
    /\ \E sidecar \in Sidecars :
          /\ Examined(sidecar).dest_folder = "func"
          /\ cur' = [Examined(sidecar) EXCEPT !.doc = sidecar.doc]
    /\ todo' = todo - 1
    /\ pc' = "aborted"
    /\ UNCHANGED <<xlsx, df, participants, subject_dirs, i, anat_tr_target,
                   func_tr_target, temp, bids, log, converted>>

\* Lines 146-149: the image is moved to its BIDS name.
MoveImage ==
    /\ pc = "move_nii"
    /\ bids' = MoveTo(bids, Path(clean_sub_name, cur.dest_folder, ".nii.gz"), EmptyDoc)
    /\ cur' = [cur EXCEPT !.nii_at = "bids"]
    /\ pc' = "move_json"
    /\ UNCHANGED <<xlsx, df, participants, subject_dirs, i, anat_tr_target,
                   func_tr_target, temp, todo, log, converted>>

\* Lines 147-149: os.makedirs or shutil.move of the image raises.
MoveImageRaises ==
    /\ pc = "move_nii"
    /\ pc' = "aborted"
    /\ UNCHANGED <<xlsx, df, participants, subject_dirs, i, anat_tr_target,
                   func_tr_target, temp, todo, cur, bids, log, converted>>

\* Line 150: the sidecar is moved to its BIDS name.
MoveSidecar ==
    /\ pc = "move_json"
    /\ bids' = MoveTo(bids, Path(clean_sub_name, cur.dest_folder, ".json"), cur.doc)
    /\ cur' = [cur EXCEPT !.json_at = "bids"]
    /\ pc' = "scan"
    /\ UNCHANGED <<xlsx, df, participants, subject_dirs, i, anat_tr_target,
                   func_tr_target, temp, todo, log, converted>>

\* Line 150: shutil.move of the sidecar raises.
MoveSidecarRaises ==
    /\ pc = "move_json"
    /\ pc' = "aborted"
    /\ UNCHANGED <<xlsx, df, participants, subject_dirs, i, anat_tr_target,
                   func_tr_target, temp, todo, cur, bids, log, converted>>

\* Line 153: all sidecars visited; temp_bids is removed and the next folder taken.
RemoveTemp ==
    /\ pc = "scan"
    /\ todo = 0
    /\ temp' = temp \ {sub_dir}
    /\ cur' = NoScan
    /\ i' = i + 1
    /\ pc' = "subject"
    /\ UNCHANGED <<xlsx, df, participants, subject_dirs, anat_tr_target, func_tr_target,
                   todo, bids, log, converted>>

\* Lines 70, 156-157: no folder is left; the run ends.
Finish ==
    /\ pc = "subject"
    /\ i > Len(subject_dirs)
    /\ pc' = "done"
    /\ UNCHANGED <<xlsx, df, participants, subject_dirs, i, anat_tr_target,
                   func_tr_target, temp, todo, cur, bids, log, converted>>

Next ==
    \/ LoadMetadata
    \/ LoadFails
    \/ SkipNoRecord
    \/ SkipBadTR
    \/ RunConversion
    \/ ConversionRaises
    \/ SkipNoImage
    \/ ClassifyScan
    \/ AugmentRaises
    \/ MoveImage
    \/ MoveImageRaises
    \/ MoveSidecar
    \/ MoveSidecarRaises
    \/ RemoveTemp
    \/ Finish

Spec == Init /\ [][Next]_vars

\* ================================================================ claims
Loaded == pc \notin {"load"} /\ ~(\E j \in 1..Len(log) : log[j].kind = "excel_error")
InSubject == pc \in {"scan", "move_nii", "move_json"}
Ended == pc \in {"done", "aborted"}
Distance(a, target) == IF a >= target.val THEN a - target.val ELSE target.val - a
BothNumeric == anat_tr_target.kind = "num" /\ func_tr_target.kind = "num"
KeyOf(d) == clean_id(d)
NoRowFor(d) == \A j \in 1..Len(df) : df[j].clean_id # KeyOf(d)
FilesUnder(key) == { f \in bids : f.path.dir.sub = SubPrefix \o key }
Warnings(key) ==
    Cardinality({ j \in 1..Len(log) : log[j].kind = "not_in_excel" /\ log[j].id = key })
BidsName(key, suffix) == [sub |-> SubPrefix \o key, ses |-> "ses-01", suffix |-> suffix]
FileAt(key, folder, suffix, ext) ==
    { f \in bids : /\ f.path.dir = [sub |-> SubPrefix \o key, ses |-> "ses-01",
                                    folder |-> folder]
                   /\ f.path.name = BidsName(key, suffix)
                   /\ f.path.ext = ext }

\* C1: a scan of a subject with numeric targets f, n and actual TR a goes to
\* func (name sub-<key>_ses-01_task-visual_bold) exactly when |a - f| < t,
\* otherwise to anat (name sub-<key>_ses-01_T2w) exactly when |a - n| < t,
\* otherwise nowhere; the comparisons are strict and func wins a tie.
C1_Classification ==
    (cur.seen /\ BothNumeric) =>
        LET a == cur.actual_tr
            nearF == Distance(a, func_tr_target) < TR_TOLERANCE
            nearN == Distance(a, anat_tr_target) < TR_TOLERANCE
        IN /\ (cur.dest_folder = "func") <=> nearF
           /\ (cur.dest_folder = "anat") <=> (~nearF /\ nearN)
           /\ (cur.dest_folder = None) <=> (~nearF /\ ~nearN)
           /\ (cur.nii_at = "bids" /\ nearF) =>
                 FileAt(clean_sub_name, "func", "task-visual_bold", ".nii.gz") # {}
           /\ (cur.json_at = "bids" /\ nearF) =>
                 FileAt(clean_sub_name, "func", "task-visual_bold", ".json") # {}
           /\ (cur.nii_at = "bids" /\ ~nearF) =>
                 FileAt(clean_sub_name, "anat", "T2w", ".nii.gz") # {}
           /\ (cur.json_at = "bids" /\ ~nearF) =>
                 FileAt(clean_sub_name, "anat", "T2w", ".json") # {}

\* A moved scan that both targets matched and that went to func.
C1_Witness ==
    /\ cur.seen /\ BothNumeric
    /\ Distance(cur.actual_tr, func_tr_target) < TR_TOLERANCE
    /\ Distance(cur.actual_tr, anat_tr_target) < TR_TOLERANCE
    /\ cur.dest_folder = "func"
    /\ cur.json_at = "bids"

\* C2: an unclassified scan is never moved and its sidecar never changed; only
\* a functional scan has its sidecar changed, and the BIDS tree changes only
\* for a scan classified func or anat.
C2_UnclassifiedInv ==
    cur.seen =>
        /\ cur.dest_folder = None =>
              /\ cur.doc = cur.orig.doc
              /\ cur.nii_at = "temp" /\ cur.json_at = "temp"
              /\ pc \notin {"move_nii", "move_json"}
        /\ cur.doc # cur.orig.doc => cur.dest_folder = "func"
C2_UnclassifiedUntouched ==
    /\ []C2_UnclassifiedInv
    /\ [][bids' # bids => (cur.seen /\ cur.dest_folder \in {"func", "anat"})]_vars

\* An unclassified scan whose sidecar already had a TaskName was passed over.
C2_Witness ==
    /\ cur.seen /\ cur.dest_folder = None /\ pc = "scan"
    /\ cur.orig.ok /\ "TaskName" \in DOMAIN cur.orig.doc

\* C3: a folder whose id is in no row gets one warning, no conversion, no
\* classification, no file under sub-<key>, and the run goes on to the next
\* folder.
C3_SkippedInv ==
    \A j \in 1..Len(subject_dirs) :
        NoRowFor(subject_dirs[j]) =>
            /\ subject_dirs[j] \notin converted
            /\ subject_dirs[j] \notin temp
            /\ FilesUnder(KeyOf(subject_dirs[j])) = {}
            /\ Warnings(KeyOf(subject_dirs[j])) = (IF j < i THEN 1 ELSE 0)
            /\ j = i => pc = "subject"
C3_NoRecordSkipped ==
    /\ []C3_SkippedInv
    /\ [][(pc = "subject" /\ i <= Len(subject_dirs) /\ NoRowFor(subject_dirs[i]))
            => (pc' = "subject" /\ i' = i + 1)]_vars

\* The first folder had no row and the second one is being organised.
C3_Witness ==
    /\ pc = "move_json"
    /\ \E j \in 1..(i - 1) : NoRowFor(subject_dirs[j])

\* C4 as stated: the targets a scan is classified against are those of the last
\* row with the subject's key (taken here for a last row with numeric TRs).
C4_LastRowWins ==
    cur.seen =>
        \A j \in 1..Len(df) :
            (/\ df[j].clean_id = KeyOf(subject_dirs[i])
             /\ \A k \in (j + 1)..Len(df) : df[k].clean_id # KeyOf(subject_dirs[i])
             /\ df[j].anat.kind = "num" /\ df[j].func.kind = "num")
            => (anat_tr_target = df[j].anat /\ func_tr_target = df[j].func)

\* C4 amended: the targets of a subject are those of the first row with its key
\* (after fill-down).
C4_FirstRowWins ==
    InSubject =>
        \A j \in 1..Len(df) :
            (/\ df[j].clean_id = KeyOf(subject_dirs[i])
             /\ \A k \in 1..(j - 1) : df[k].clean_id # KeyOf(subject_dirs[i]))
            => (anat_tr_target = df[j].anat /\ func_tr_target = df[j].func)

\* A scan was classified for a key that two rows give different anat targets.
C4_Witness ==
    /\ cur.seen /\ cur.dest_folder = "anat"
    /\ \E j, k \in 1..Len(df) :
          /\ j < k
          /\ df[j].clean_id = KeyOf(subject_dirs[i])
          /\ df[k].clean_id = KeyOf(subject_dirs[i])
          /\ df[j].anat.kind = "num" /\ df[k].anat.kind = "num"
          /\ df[j].anat # df[k].anat

\* C5 as stated: a row whose TR stays missing after fill-down is no record: its
\* folder is not converted and no scan is classified against a missing TR.
C5_MissingTRExcluded ==
    InSubject => (anat_tr_target.kind # "nan" /\ func_tr_target.kind # "nan")

\* C6 as stated: participants.tsv has as many rows as there are distinct keys
\* with both TRs numeric.
C6_RowsEqualRecords ==
    Loaded =>
        Len(participants) =
            Cardinality({ df[j].clean_id :
                            j \in { k \in 1..Len(df) :
                                      df[k].anat.kind = "num" /\ df[k].func.kind = "num" } })

\* C6 amended: participants.tsv has one row per row of the sheet, in order,
\* each sub-<normalised id>, whatever folders are on disk.
C6_RowsEqualSheetRows ==
    Loaded =>
        /\ Len(participants) = Len(xlsx)
        /\ \A j \in 1..Len(xlsx) : participants[j] = SubPrefix \o KeyOf(xlsx[j].id)

\* The run ended with two rows for one key written out.
C6_Witness ==
    /\ pc = "done" /\ Loaded
    /\ Len(xlsx) = 2
    /\ KeyOf(xlsx[1].id) = KeyOf(xlsx[2].id)
    /\ Len(participants) = 2

\* C7 as stated: when the next folder is taken or the run has ended, no
\* temp_bids folder exists.
C7_TempRemoved == (pc = "subject" \/ Ended) => temp = {}

\* C8 as stated: a failing conversion or move is skipped; the run never aborts
\* and, once over, has visited every folder.
C8_FailuresSkipped ==
    /\ pc # "aborted"
    /\ (pc = "done" /\ Loaded) => i > Len(subject_dirs)

\* C9: a scan whose sidecar is unreadable or has no RepetitionTime is left
\* unclassified and unmoved for positive targets, and the loop goes on.
C9_AbsentTRUnclassified ==
    (/\ cur.seen
     /\ ~cur.orig.ok \/ "RepetitionTime" \notin DOMAIN cur.orig.doc
     /\ anat_tr_target.kind = "num" => anat_tr_target.val > 0
     /\ func_tr_target.kind = "num" => func_tr_target.val > 0)
    => /\ cur.dest_folder = None
       /\ cur.nii_at = "temp" /\ cur.json_at = "temp"
       /\ pc = "scan"

\* A sidecar without RepetitionTime met numeric targets.
C9_Witness ==
    /\ cur.seen /\ cur.orig.ok
    /\ "RepetitionTime" \notin DOMAIN cur.orig.doc
    /\ BothNumeric
    /\ pc = "scan"

\* C10: the TaskName of a functional scan is in its sidecar before either file
\* moves, and a sidecar under func has TaskName "visual" and every other field
\* as converted.
C10_TaskNameBeforeMove ==
    /\ (/\ cur.seen /\ cur.dest_folder = "func"
        /\ \/ pc \in {"move_nii", "move_json", "scan"}
           \/ cur.nii_at = "bids"
           \/ cur.json_at = "bids") =>
          /\ DOMAIN cur.doc = DOMAIN cur.orig.doc \cup {"TaskName"}
          /\ cur.doc["TaskName"] = "visual"
          /\ \A f \in DOMAIN cur.orig.doc \ {"TaskName"} : cur.doc[f] = cur.orig.doc[f]
    /\ pc = "move_nii" => (cur.nii_at = "temp" /\ cur.json_at = "temp")
    /\ (cur.seen /\ cur.dest_folder = "func" /\ cur.json_at = "bids") =>
          \A f \in FileAt(clean_sub_name, "func", "task-visual_bold", ".json") :
              f.data = cur.doc
    /\ \A f \in bids :
          (f.path.dir.folder = "func" /\ f.path.ext = ".json") =>
              ("TaskName" \in DOMAIN f.data /\ f.data["TaskName"] = "visual")

\* A functional sidecar that already had a TaskName reached func.
C10_Witness ==
    /\ cur.seen /\ cur.dest_folder = "func" /\ cur.json_at = "bids"
    /\ "TaskName" \in DOMAIN cur.orig.doc
    /\ cur.orig.doc["TaskName"] = "rest"

====
